---- MODULE Spec2Model ----
(***************************************************************************)
(* Model of infra/saving_fee_updater.py: one run of the script that        *)
(* fetches the ETH/USD price, converts 1 USD to wei and calls editFees on  *)
(* the contract of every configured chain.                                 *)
(***************************************************************************)
EXTENDS Integers, Sequences, FiniteSets, TLC

(***************************************************************************)
(* Arbitrary-precision naturals.  Python ints are unbounded and the fee is *)
(* of the order of 10^18, so a natural is a sequence of limbs in a base B, *)
(* most significant limb first, without leading zeros (zero is <<>>).      *)
(* Values the script holds or prints are kept in base 10^4:                *)
(* <<500, 0, 0, 0>> is 500 0000 0000 0000 = 5 * 10^14.  Float arithmetic   *)
(* works on the binary digits and uses base 2^15.                          *)
(***************************************************************************)
Dec == 10^4
LimbBits == 15
Bin == 2^LimbBits

RECURSIVE StripZeros(_)
StripZeros(x) ==
    IF x = <<>> THEN <<>>
    ELSE IF Head(x) = 0 THEN StripZeros(Tail(x)) ELSE x

\* x * c + a in base B, for a natural x and small c, a >= 0
RECURSIVE MulAddSmall(_, _, _, _)
MulAddSmall(B, x, c, a) ==
    IF x = <<>>
    THEN IF a = 0 THEN <<>>
         ELSE Append(MulAddSmall(B, <<>>, c, a \div B), a % B)
    ELSE LET n == Len(x)
             t == x[n] * c + a
         IN  Append(MulAddSmall(B, SubSeq(x, 1, n - 1), c, t \div B), t % B)

NatOf(B, n) == MulAddSmall(B, <<>>, 1, n)

\* x + y + carry in base B
RECURSIVE AddLimbs(_, _, _, _)
AddLimbs(B, x, y, carry) ==
    IF x = <<>> THEN MulAddSmall(B, y, 1, carry)
    ELSE IF y = <<>> THEN MulAddSmall(B, x, 1, carry)
    ELSE LET n == Len(x)
             k == Len(y)
             t == x[n] + y[k] + carry
         IN  Append(AddLimbs(B, SubSeq(x, 1, n - 1), SubSeq(y, 1, k - 1), t \div B),
                    t % B)

\* x * y in base B, schoolbook over the limbs of y
RECURSIVE MulLimbs(_, _, _)
MulLimbs(B, x, y) ==
    IF y = <<>> \/ x = <<>> THEN <<>>
    ELSE LET k == Len(y)
             hi == MulLimbs(B, x, SubSeq(y, 1, k - 1))
         IN  AddLimbs(B, IF hi = <<>> THEN <<>> ELSE Append(hi, 0),
                      MulAddSmall(B, x, y[k], 0), 0)

\* floor(x / p) in base B for a natural x and small p > 0, r the running
\* remainder
RECURSIVE DivLimbs(_, _, _, _)
DivLimbs(B, x, p, r) ==
    IF x = <<>> THEN <<>>
    ELSE LET t == r * B + Head(x)
         IN  <<t \div p>> \o DivLimbs(B, Tail(x), p, t % p)

FloorDivSmall(B, x, p) == StripZeros(DivLimbs(B, x, p, 0))

\* a natural of base Bin in base Dec
RECURSIVE ToDec(_)
ToDec(x) ==
    IF x = <<>> THEN <<>>
    ELSE MulAddSmall(Dec, ToDec(SubSeq(x, 1, Len(x) - 1)), Bin, x[Len(x)])

\* 10**18 in base B
TenPow18(B) ==
    LET k(x) == MulAddSmall(B, x, 1000, 0)
    IN  k(k(k(k(k(k(NatOf(B, 1)))))))

Zeros(n) == [j \in 1..n |-> 0]

\* binary digits of a natural of base Bin, most significant first, leading
\* zeros kept
BitsOfLimbs(x) ==
    [j \in 1..(LimbBits * Len(x)) |->
        (x[((j - 1) \div LimbBits) + 1]
            \div 2^(LimbBits - 1 - ((j - 1) % LimbBits))) % 2]

\* drop the zeros before the first 1
StripBits(b) ==
    IF \A j \in 1..Len(b) : b[j] = 0 THEN <<>>
    ELSE LET k == CHOOSE k \in 1..Len(b) :
                      b[k] = 1 /\ \A j \in 1..(k - 1) : b[j] = 0
         IN  SubSeq(b, k, Len(b))

\* the value of at most LimbBits binary digits
RECURSIVE BitsValue(_)
BitsValue(b) ==
    IF b = <<>> THEN 0
    ELSE 2 * BitsValue(SubSeq(b, 1, Len(b) - 1)) + b[Len(b)]

\* the natural of base Bin with binary digits b
LimbsOfBits(b) ==
    LET pad == (LimbBits - (Len(b) % LimbBits)) % LimbBits
        pb == Zeros(pad) \o b
    IN  StripZeros([k \in 1..(Len(pb) \div LimbBits) |->
                       BitsValue(SubSeq(pb, LimbBits * (k - 1) + 1, LimbBits * k))])

(***************************************************************************)
(* Python floats are IEEE-754 binary64: a finite non-zero float is         *)
(* [m, e] with m a 53-bit significand (leading bit 1) and value m * 2^e.   *)
(* Every operation rounds to nearest, ties to even.  The exponent range    *)
(* is not modelled: the values here lie between 2^-20 and 2^64.            *)
(***************************************************************************)
MantBits == 53

\* b + 1 on binary digits
IncBits(b) ==
    IF \A j \in 1..Len(b) : b[j] = 1 THEN <<1>> \o Zeros(Len(b))
    ELSE LET z == CHOOSE z \in 1..Len(b) :
                      b[z] = 0 /\ \A j \in (z + 1)..Len(b) : b[j] = 1
         IN  [j \in 1..Len(b) |-> IF j < z THEN b[j] ELSE IF j = z THEN 1 ELSE 0]

\* the float nearest to (bits * 2^e + a residue below the last bit that is
\* non-zero iff sticky); bits has a leading 1
RoundToFloat(bits, e, sticky) ==
    LET n == Len(bits)
    IN  IF n <= MantBits
        THEN [m |-> bits \o Zeros(MantBits - n), e |-> e - (MantBits - n)]
        ELSE LET m == SubSeq(bits, 1, MantBits)
                 guard == bits[MantBits + 1]
                 st == sticky \/ \E j \in (MantBits + 2)..n : bits[j] = 1
                 up == guard = 1 /\ (st \/ m[MantBits] = 1)
                 r == IF up THEN IncBits(m) ELSE m
                 e1 == e + (n - MantBits)
             IN  IF Len(r) > MantBits
                 THEN [m |-> SubSeq(r, 1, MantBits), e |-> e1 + 1]
                 ELSE [m |-> r, e |-> e1]

\* limbs of the binary expansion of r / p below the binary point (r < p),
\* n limbs of them, and the remainder left after the last one
RECURSIVE FracLimbs(_, _, _)
FracLimbs(r, p, n) ==
    IF n = 0 THEN [q |-> <<>>, r |-> r]
    ELSE LET t == r * Bin
             rest == FracLimbs(t % p, p, n - 1)
         IN  [q |-> <<t \div p>> \o rest.q, r |-> rest.r]

\* limbs kept below the binary point: enough for the significand and its
\* guard bit of any quotient >= 2^-32
FracLen == 6

\* int / int true division of positive ints below 2^15, correctly rounded
TrueDiv(u, p) ==
    LET f == FracLimbs(u % p, p, FracLen)
    IN  RoundToFloat(StripBits(BitsOfLimbs(<<u \div p>> \o f.q)),
                     0 - LimbBits * FracLen, f.r # 0)

\* int -> float conversion of a positive int
IntToFloat(x) == RoundToFloat(StripBits(BitsOfLimbs(x)), 0, FALSE)

\* float * float
FloatMul(f, g) ==
    RoundToFloat(StripBits(BitsOfLimbs(MulLimbs(Bin, LimbsOfBits(f.m), LimbsOfBits(g.m)))),
                 f.e + g.e, FALSE)

\* int(float): truncation toward zero
FloatToInt(f) ==
    IF f.e >= 0 THEN ToDec(LimbsOfBits(f.m \o Zeros(f.e)))
    ELSE IF MantBits + f.e <= 0 THEN <<>>
    ELSE ToDec(LimbsOfBits(SubSeq(f.m, 1, MantBits + f.e)))

Abs(n) == IF n < 0 THEN 0 - n ELSE n

\* usd_to_wei(usd_amount, eth_price_usd) for int arguments, usd_amount > 0:
\*     eth_value = usd_amount / eth_price_usd
\*     return int(eth_value * 10**18)
\* A Python int is [neg, mag]; a zero divisor raises ZeroDivisionError.
usd_to_wei(usd_amount, eth_price_usd) ==
    IF eth_price_usd = 0
    THEN [raises |-> TRUE, exc |-> "ZeroDivisionError"]
    ELSE LET eth_value == TrueDiv(usd_amount, Abs(eth_price_usd))
             mag == FloatToInt(FloatMul(eth_value, IntToFloat(TenPow18(Bin))))
         IN  [raises |-> FALSE,
              val |-> [neg |-> eth_price_usd < 0 /\ mag # <<>>, mag |-> mag]]

(***************************************************************************)
(* Configuration (lines 10-39) and the bounded outside world.              *)
(***************************************************************************)
None == "None"

\* CONTRACTS in insertion order, the order dict.items() yields
ChainOrder == <<"base", "celo">>

Rpc(c) == IF c = "base" THEN "https://mainnet.base.org"
              ELSE "https://rpc.api.lisk.com"

AddressVar(c) == IF c = "base" THEN "CONTRACT_BASE" ELSE "CONTRACT_CELO"

EnvNames == {"PRIVATE_KEY", "ACCOUNT_ADDRESS", "CONTRACT_BASE", "CONTRACT_CELO"}

\* the literal first argument of usd_to_wei at its call site
UsdTarget == 1

\* the "gas" entry of the transaction dict
GasLimit == 200000

MaxPrice == 2
MaxNonce == 1
MaxGasPrice == 2
MaxBlock == 1
MaxUsd == 3
MaxFeePrice == 60

\* prices the API may report (JSON integers)
Prices == ((0 - MaxPrice)..MaxPrice) \cup {2000, 0 - 2000}

\* resp.json(): the value at ["ethereum"]["usd"], <<>> when the path is absent
Bodies == {<<>>} \cup {<<p>> : p \in Prices}

\* 300 stands for a 3xx answer requests hands back without following it
HttpStatuses == {200, 300, 500}

\* requests.get either raises (no connection) or returns a response
ApiResponses ==
    {[raises |-> TRUE, status |-> 0, body |-> <<>>]}
    \cup [raises : {FALSE}, status : HttpStatuses, body : Bodies]

\* prices given to the fee calculator when it is exercised on its own
FeePrices == (1..MaxFeePrice) \cup {2000}

\* usd_to_wei is a pure function: its results over the inputs of the model,
\* evaluated once
usd_to_wei_results ==
    {<<u, p, usd_to_wei(u, p)>> : u \in 1..MaxUsd, p \in Prices \cup FeePrices}

usd_to_wei_result(u, p) ==
    (CHOOSE t \in usd_to_wei_results : t[1] = u /\ t[2] = p)[3]

Nonces == 0..MaxNonce
GasPrices == 1..MaxGasPrice
Blocks == 1..MaxBlock

VARIABLES
    env,            \* which of the required variables the environment sets
    pc,             \* position of the script
    globals,        \* the module-level names bound by lines 81 and 82
    i,              \* index in ChainOrder of the loop's current chain
    frame,          \* the local names bound in the running update_saving_fee
    trace,          \* every external call, local step and log line so far
    exit_code       \* <<status>> once the process has exited, <<>> before

vars == <<env, pc, globals, i, frame, trace, exit_code>>

\* a namespace binds names to values; none is bound at first
NoNames == [x \in {} |-> 0]

Bind(d, name, v) == [x \in DOMAIN d \cup {name} |-> IF x = name THEN v ELSE d[x]]

eth_price == globals["eth_price"]
saving_fee_wei == globals["saving_fee_wei"]

\* an entry of the trace: step op of chain c ("-" outside the loop) returned
\* val, or raised exc
Returned(c, op, val) == [chain |-> c, op |-> op, ok |-> TRUE, val |-> <<val>>, exc |-> ""]
Raised(c, op, exc) == [chain |-> c, op |-> op, ok |-> FALSE, val |-> <<>>, exc |-> exc]

\* os.getenv(name): the value (named after its variable) or None
getenv(name) == IF env[name] THEN name ELSE None

PRIVATE_KEY == getenv("PRIVATE_KEY")
ACCOUNT_ADDRESS == getenv("ACCOUNT_ADDRESS")
CONTRACTS(c) == [rpc |-> Rpc(c), address |-> getenv(AddressVar(c))]

\* a Python int from a small integer
PyInt(n) == [neg |-> n < 0, mag |-> NatOf(Dec, Abs(n))]

\* eth_chainId as the two endpoints answer it (Base 8453, Lisk 1135)
eth_chainId(rpc) == IF rpc = "https://mainnet.base.org" THEN 8453 ELSE 1135

chain_name == ChainOrder[i]

Init ==
    /\ env \in [EnvNames -> BOOLEAN]
    /\ pc = "main_81"
    /\ globals = NoNames
    /\ i = 1
    /\ frame = NoNames
    /\ trace = <<>>
    /\ exit_code = <<>>

\* after the step recorded as ev, exception exc reaches the top level:
\* traceback, exit status 1
Abort(ev, exc) ==
    /\ trace' = trace \o <<ev, Raised("-", "main", exc)>>
    /\ pc' = "exited"
    /\ exit_code' = <<1>>

\* Response.raise_for_status raises HTTPError for 4xx and 5xx
raise_for_status(status) == status >= 400 /\ status < 600

\* get_eth_price_usd as it would be with a retry loop around the request:
\* an HTTP error status sends the request again
get_eth_price_usd_retry ==
    /\ pc = "main_81"
    /\ \E resp \in ApiResponses :
         IF resp.raises
         THEN /\ Abort(Returned("-", "GET", resp), "ConnectionError")
              /\ UNCHANGED globals
         ELSE IF raise_for_status(resp.status)
         THEN /\ trace' = Append(trace, Returned("-", "GET", resp))
              /\ UNCHANGED <<pc, globals, exit_code>>
         ELSE IF resp.body = <<>>
         THEN /\ Abort(Returned("-", "GET", resp), "KeyError")
              /\ UNCHANGED globals
         ELSE /\ trace' = Append(trace, Returned("-", "GET", resp))
              /\ globals' = Bind(globals, "eth_price", resp.body[1])
              /\ pc' = "main_82"
              /\ UNCHANGED exit_code
    /\ UNCHANGED <<env, i, frame>>

\* line 81 with get_eth_price_usd (lines 44-49)
get_eth_price_usd ==
    /\ pc = "main_81"
    /\ \E resp \in ApiResponses :
         IF resp.raises
         THEN /\ Abort(Returned("-", "GET", resp), "ConnectionError")
              /\ UNCHANGED globals
         ELSE IF raise_for_status(resp.status)
         THEN /\ Abort(Returned("-", "GET", resp), "HTTPError")
              /\ UNCHANGED globals
         ELSE IF resp.body = <<>>
         THEN /\ Abort(Returned("-", "GET", resp), "KeyError")
              /\ UNCHANGED globals
         ELSE /\ trace' = Append(trace, Returned("-", "GET", resp))
              /\ globals' = Bind(globals, "eth_price", resp.body[1])
              /\ pc' = "main_82"
              /\ UNCHANGED exit_code
    /\ UNCHANGED <<env, i, frame>>

\* the call usd_to_wei(u, eth_price) and the assignment of its result
call_usd_to_wei(u) ==
    /\ pc = "main_82"
    /\ LET r == usd_to_wei_result(u, eth_price)
       IN  IF r.raises
           THEN /\ Abort(Returned("-", "usd_to_wei",
                            [usd_amount |-> u, eth_price_usd |-> eth_price,
                             return |-> <<>>]), r.exc)
                /\ UNCHANGED globals
           ELSE /\ globals' = Bind(globals, "saving_fee_wei", r.val)
                /\ trace' = Append(trace, Returned("-", "usd_to_wei",
                            [usd_amount |-> u, eth_price_usd |-> eth_price,
                             return |-> <<r.val>>]))
                /\ pc' = "main_84"
                /\ UNCHANGED exit_code
    /\ UNCHANGED <<env, i, frame>>

\* line 82
main_82 == call_usd_to_wei(UsdTarget)

\* line 84: the summary line
main_84 ==
    /\ pc = "main_84"
    /\ trace' = Append(trace, Returned("-", "log_summary",
                                 [price |-> eth_price, fee |-> saving_fee_wei]))
    /\ pc' = "main_86"
    /\ UNCHANGED <<env, globals, i, frame, exit_code>>

\* line 86, next item: enter the try block and call update_saving_fee
main_86_next ==
    /\ pc = "main_86"
    /\ i <= Len(ChainOrder)
    /\ frame' = NoNames
    /\ pc' = "usf_57"
    /\ UNCHANGED <<env, globals, i, trace, exit_code>>

\* line 86, items exhausted: the script ends, exit status 0
main_86_end ==
    /\ pc = "main_86"
    /\ i > Len(ChainOrder)
    /\ pc' = "exited"
    /\ exit_code' = <<0>>
    /\ UNCHANGED <<env, globals, i, frame, trace>>

(***************************************************************************)
(* update_saving_fee(chain, cfg["rpc"], cfg["address"], saving_fee_wei),   *)
(* one action per statement or external call, in evaluation order.         *)
(***************************************************************************)
cfg == CONTRACTS(chain_name)

\* the statement succeeded
Step(op, val, to) ==
    /\ trace' = Append(trace, Returned(chain_name, op, val))
    /\ pc' = to

\* the statement raised: control passes to the except clause of line 89
Raise(op, exc) ==
    /\ trace' = Append(trace, Raised(chain_name, op, exc))
    /\ pc' = "main_89"
    /\ UNCHANGED frame

Fixed == <<env, globals, i, exit_code>>

\* lines 57-59 as they would be without the raise: the failed check is
\* noticed and the function carries on
usf_57_no_raise ==
    /\ pc = "usf_57"
    /\ \E up \in BOOLEAN :
         /\ trace' = Append(trace, IF up THEN Returned(chain_name, "is_connected", cfg.rpc)
                                   ELSE Raised(chain_name, "is_connected", "RuntimeError"))
         /\ pc' = "usf_61"
         /\ UNCHANGED frame
    /\ UNCHANGED Fixed

\* lines 57-59: is_connected() answers False when the endpoint is unreachable
usf_57 ==
    /\ pc = "usf_57"
    /\ \E up \in BOOLEAN :
         IF up THEN Step("is_connected", cfg.rpc, "usf_61") /\ UNCHANGED frame
         ELSE Raise("is_connected", "RuntimeError")
    /\ UNCHANGED Fixed

\* line 61: to_checksum_address rejects None
usf_61 ==
    /\ pc = "usf_61"
    /\ IF cfg.address = None THEN Raise("contract", "TypeError")
       ELSE /\ Step("contract", cfg.address, "usf_62")
            /\ frame' = Bind(frame, "contract", cfg.address)
    /\ UNCHANGED Fixed

\* line 62: eth_getTransactionCount for ACCOUNT_ADDRESS
usf_62 ==
    /\ pc = "usf_62"
    /\ \/ Raise("get_transaction_count", "RpcError")
       \/ /\ ACCOUNT_ADDRESS # None
          /\ \E n \in Nonces :
               /\ Step("get_transaction_count", n, "usf_64_call")
               /\ frame' = Bind(frame, "nonce", n)
    /\ UNCHANGED Fixed

\* does the ABI encode v as a uint256 (values here stay below 2^256)
EncodableUint256(v) == ~v.neg

\* line 64 as it would be with the two arguments in the other order,
\* editFees(saving_fee_wei, 0)
usf_64_call_swapped ==
    /\ pc = "usf_64_call"
    /\ \/ /\ ~EncodableUint256(saving_fee_wei)
          /\ Raise("editFees", "ValidationError")
       \/ /\ Step("editFees", saving_fee_wei, "usf_65")
          /\ frame' = Bind(frame, "call",
                           [fn |-> "editFees", joinFee |-> saving_fee_wei,
                            savingFee |-> PyInt(0)])
    /\ UNCHANGED Fixed

\* line 64, contract.functions.editFees(0, saving_fee_wei): the arguments are
\* matched against (uint256, uint256) here or, in some releases of the
\* library, only when the transaction is built
usf_64_call ==
    /\ pc = "usf_64_call"
    /\ \/ /\ ~EncodableUint256(saving_fee_wei)
          /\ Raise("editFees", "ValidationError")
       \/ /\ Step("editFees", saving_fee_wei, "usf_65")
          /\ frame' = Bind(frame, "call",
                           [fn |-> "editFees", joinFee |-> PyInt(0),
                            savingFee |-> saving_fee_wei])
    /\ UNCHANGED Fixed

\* line 65: w3.eth.chain_id
usf_65 ==
    /\ pc = "usf_65"
    /\ \/ Raise("chain_id", "RpcError")
       \/ /\ Step("chain_id", eth_chainId(cfg.rpc), "usf_67")
          /\ frame' = Bind(frame, "chainId", eth_chainId(cfg.rpc))
    /\ UNCHANGED Fixed

\* line 67: w3.eth.gas_price
usf_67 ==
    /\ pc = "usf_67"
    /\ \/ Raise("gas_price", "RpcError")
       \/ \E g \in GasPrices :
            /\ Step("gas_price", g, "usf_64_build")
            /\ frame' = Bind(frame, "gasPrice", g)
    /\ UNCHANGED Fixed

\* lines 64-69: build_transaction with every field given (no RPC needed)
usf_64_build ==
    /\ pc = "usf_64_build"
    /\ IF ~EncodableUint256(frame.call.savingFee)
       THEN Raise("build_transaction", "ValidationError")
       ELSE LET txn == [to |-> frame.contract, data |-> frame.call,
                        chainId |-> frame.chainId, gas |-> GasLimit,
                        gasPrice |-> frame.gasPrice, nonce |-> frame.nonce]
            IN  /\ Step("build_transaction", txn, "usf_71")
                /\ frame' = Bind(frame, "txn", txn)
    /\ UNCHANGED Fixed

\* line 71: local signing; a None key is rejected
usf_71 ==
    /\ pc = "usf_71"
    /\ IF PRIVATE_KEY = None THEN Raise("sign_transaction", "TypeError")
       ELSE LET signed == [rawTransaction |-> frame.txn, key |-> PRIVATE_KEY]
            IN  /\ Step("sign_transaction", signed, "usf_72")
                /\ frame' = Bind(frame, "signed_txn", signed)
    /\ UNCHANGED Fixed

\* line 72: eth_sendRawTransaction
usf_72 ==
    /\ pc = "usf_72"
    /\ \/ Raise("send_raw_transaction", "RpcError")
       \/ LET h == [keccak |-> frame.signed_txn.rawTransaction]
          IN  /\ Step("send_raw_transaction", frame.signed_txn, "usf_73")
              /\ frame' = Bind(frame, "tx_hash", h)
    /\ UNCHANGED Fixed

\* line 73
usf_73 ==
    /\ pc = "usf_73"
    /\ Step("log_sent", frame.tx_hash, "usf_74")
    /\ UNCHANGED frame
    /\ UNCHANGED Fixed

\* line 74: wait_for_transaction_receipt polls until a receipt or its timeout
usf_74 ==
    /\ pc = "usf_74"
    /\ \/ Raise("wait_for_transaction_receipt", "TimeExhausted")
       \/ \E b \in Blocks :
            LET receipt == [blockNumber |-> b, transactionHash |-> frame.tx_hash]
            IN  /\ Step("wait_for_transaction_receipt", receipt, "usf_75")
                /\ frame' = Bind(frame, "receipt", receipt)
    /\ UNCHANGED Fixed

\* line 75, then the call returns and the loop takes the next item
usf_75 ==
    /\ pc = "usf_75"
    /\ Step("log_confirmed", frame.receipt.blockNumber, "main_86")
    /\ i' = i + 1
    /\ UNCHANGED <<env, globals, frame, exit_code>>

\* lines 89-90 as they would be without the try: the exception leaves the
\* loop and ends the script
main_89_reraise ==
    /\ pc = "main_89"
    /\ trace' = Append(trace, Raised("-", "main", trace[Len(trace)].exc))
    /\ pc' = "exited"
    /\ exit_code' = <<1>>
    /\ UNCHANGED <<env, globals, i, frame>>

\* lines 89-90 as they would be with "except RuntimeError": any other
\* exception leaves the loop and ends the script
main_89_runtime_only ==
    /\ pc = "main_89"
    /\ IF trace[Len(trace)].exc = "RuntimeError"
       THEN /\ trace' = Append(trace, Returned(chain_name, "log_error",
                                               trace[Len(trace)].exc))
            /\ pc' = "main_86"
            /\ i' = i + 1
            /\ UNCHANGED exit_code
       ELSE /\ trace' = Append(trace, Raised("-", "main", trace[Len(trace)].exc))
            /\ pc' = "exited"
            /\ exit_code' = <<1>>
            /\ UNCHANGED i
    /\ UNCHANGED <<env, globals, frame>>

\* lines 89-90 as they would be with "except Exception: pass": nothing is
\* printed
main_89_silent ==
    /\ pc = "main_89"
    /\ pc' = "main_86"
    /\ i' = i + 1
    /\ UNCHANGED <<env, globals, frame, trace, exit_code>>

\* lines 89-90: except Exception prints the error, the loop takes the next item
main_89 ==
    /\ pc = "main_89"
    /\ trace' = Append(trace, Returned(chain_name, "log_error",
                                       trace[Len(trace)].exc))
    /\ pc' = "main_86"
    /\ i' = i + 1
    /\ UNCHANGED <<env, globals, frame, exit_code>>

update_saving_fee ==
    \/ usf_57 \/ usf_61 \/ usf_62 \/ usf_64_call \/ usf_65 \/ usf_67
    \/ usf_64_build \/ usf_71 \/ usf_72 \/ usf_73 \/ usf_74 \/ usf_75

Next ==
    \/ get_eth_price_usd \/ main_82 \/ main_84 \/ main_86_next \/ main_86_end
    \/ update_saving_fee \/ main_89

Spec == Init /\ [][Next]_vars

\* the script keeps running: every external call is assumed to return or
\* raise, and nothing else can hold a step back.  Every step of Next moves
\* pc, so fairness on the steps that change pc is fairness on Next.
FairSpec == Spec /\ WF_pc(Next)

(***************************************************************************)
(* The fee calculator on its own: usd_to_wei applied once to every pair    *)
(* of a usd amount and a positive price the API reported.                  *)
(***************************************************************************)
InitFee ==
    /\ env = [n \in EnvNames |-> TRUE]
    /\ pc = "main_82"
    /\ \E p \in FeePrices :
         /\ globals = Bind(NoNames, "eth_price", p)
         /\ trace = <<Returned("-", "GET",
                         [raises |-> FALSE, status |-> 200, body |-> <<p>>])>>
    /\ i = 1
    /\ frame = NoNames
    /\ exit_code = <<>>

NextFee == \E u \in 1..MaxUsd : call_usd_to_wei(u)

SpecFee == InitFee /\ [][NextFee]_vars

(***************************************************************************)
(* Vocabulary of the properties.                                           *)
(***************************************************************************)
Chains == {ChainOrder[k] : k \in DOMAIN ChainOrder}

\* the steps that send a JSON-RPC request to the chain's endpoint
RpcOps == {"is_connected", "get_transaction_count", "chain_id", "gas_price",
           "send_raw_transaction", "wait_for_transaction_receipt"}

\* the steps of one submission, in the order the specification gives
StepOrder == <<"is_connected", "contract", "get_transaction_count", "editFees",
               "chain_id", "gas_price", "build_transaction", "sign_transaction",
               "send_raw_transaction", "log_sent",
               "wait_for_transaction_receipt", "log_confirmed">>

EventsOf(c) == SelectSeq(trace, LAMBDA e : e.chain = c)

Has(c, op, ok) == \E k \in DOMAIN trace :
    trace[k].chain = c /\ trace[k].op = op /\ trace[k].ok = ok

Count(c, op) == Cardinality({k \in DOMAIN trace :
    trace[k].chain = c /\ trace[k].op = op})

\* the value of the successful step op of chain c
ValOf(c, op) == trace[CHOOSE k \in DOMAIN trace :
    trace[k].chain = c /\ trace[k].op = op /\ trace[k].ok].val[1]

NoChainEvent == \A k \in DOMAIN trace : trace[k].chain = "-"

NoRpcCall == \A k \in DOMAIN trace : trace[k].op \notin RpcOps

\* some step of chain c raised
Failed(c) == \E k \in DOMAIN trace : trace[k].chain = c /\ ~trace[k].ok

\* the price stage (fetch and fee computation) succeeded
PriceStageOk == \E k \in DOMAIN trace :
    trace[k].op = "usd_to_wei" /\ trace[k].val[1].return # <<>>

\* every environment value the script reads is set
ConfigComplete == \A n \in EnvNames : env[n]

Finished == pc = "exited"

Position(c) == IF c = "-" THEN 0 ELSE CHOOSE k \in DOMAIN ChainOrder : ChainOrder[k] = c

(***************************************************************************)
(* C1: a step of update_saving_fee that fails for a chain is followed by   *)
(* the error line carrying that chain's name, the run then goes on: when   *)
(* it ends every configured chain has been attempted, and a chain none of  *)
(* whose steps failed has its transaction broadcast and its confirmation   *)
(* logged, whatever happened to the chains before it.                      *)
(***************************************************************************)
C1_FailureIsolation ==
    /\ \A k \in DOMAIN trace :
         (trace[k].chain # "-" /\ ~trace[k].ok) =>
            \/ k = Len(trace) /\ pc = "main_89" /\ chain_name = trace[k].chain
            \/ /\ k < Len(trace)
               /\ trace[k + 1].op = "log_error"
               /\ trace[k + 1].chain = trace[k].chain
    /\ (Finished /\ ~NoChainEvent) =>
         /\ exit_code = <<0>>
         /\ \A c \in Chains :
              /\ Count(c, "is_connected") = 1
              /\ ~Failed(c) => /\ Has(c, "send_raw_transaction", TRUE)
                               /\ Has(c, "log_confirmed", TRUE)

C1_Witness ==
    /\ Finished
    /\ Has("base", "is_connected", FALSE)
    /\ Has("base", "log_error", TRUE)
    /\ Has("celo", "send_raw_transaction", TRUE)
    /\ Has("celo", "log_confirmed", TRUE)

\* the price API's answer is a failure as the specification defines it
NonSuccess(resp) == resp.raises \/ resp.status < 200 \/ resp.status >= 300

FieldAbsent(resp) == resp.body = <<>>

(***************************************************************************)
(* C2: when the price API answers with a non-success HTTP status, or with  *)
(* a body lacking the ethereum/usd field, no chain step, so no RPC call,   *)
(* is ever taken and the run ends with a failure status.  Stated for the   *)
(* runs the other requirements let through: every environment value set,   *)
(* and the price, when the body has one, positive.                         *)
(***************************************************************************)
C2_PriceFailureAborts ==
    \A k \in DOMAIN trace :
        LET resp == trace[k].val[1]
        IN  (/\ ConfigComplete
             /\ trace[k].op = "GET"
             /\ NonSuccess(resp) \/ FieldAbsent(resp)
             /\ FieldAbsent(resp) \/ resp.body[1] > 0)
               => /\ NoChainEvent
                  /\ NoRpcCall
                  /\ Finished => exit_code = <<1>>

\* the price the API reported, when it reported one and the fetch returned it
FetchedPrice == trace[1].val[1].body[1]

Fetched == trace # <<>> /\ trace[1].val[1].body # <<>>

(***************************************************************************)
(* C3: a price that is zero or negative is rejected by the fee calculator  *)
(* and the run aborts: no fee is derived from it and no chain step is      *)
(* taken.  Stated for the runs with every environment value set.           *)
(***************************************************************************)
C3_RejectsNonPositivePrice ==
    (ConfigComplete /\ Fetched /\ FetchedPrice <= 0) =>
        /\ ~PriceStageOk
        /\ NoChainEvent
        /\ pc \in {"main_82", "exited"}
        /\ Finished => exit_code = <<1>>

(***************************************************************************)
(* C4: when a required environment value is absent the run does no         *)
(* network activity: no price GET and no chain RPC call.                   *)
(***************************************************************************)
C4_MissingConfigurationAborts ==
    (\E n \in EnvNames : ~env[n]) =>
        /\ ~Has("-", "GET", TRUE)
        /\ NoRpcCall

\* floor(u * 10^18 / p), computed on exact integers
ExactFloor(u, p) == FloorDivSmall(Dec, MulAddSmall(Dec, TenPow18(Dec), u, 0), p)

(***************************************************************************)
(* C5: for every usd amount u > 0 and price p > 0 the fee usd_to_wei       *)
(* returns is the non-negative integer floor(u * 10^18 / p); for u = 1     *)
(* and p = 2000 it is 500000000000000.                                     *)
(***************************************************************************)
C5_FeeIsExactFloor ==
    \A k \in DOMAIN trace :
        LET call == trace[k].val[1]
        IN  (trace[k].op = "usd_to_wei" /\ call.usd_amount > 0 /\ call.eth_price_usd > 0) =>
               /\ call.return = <<[neg |-> FALSE,
                                   mag |-> ExactFloor(call.usd_amount, call.eth_price_usd)]>>
               /\ (call.usd_amount = 1 /\ call.eth_price_usd = 2000) =>
                      call.return[1].mag = <<500, 0, 0, 0>>

(***************************************************************************)
(* C6: once the price stage has succeeded the process can only end at the  *)
(* end of the chain loop, with exit status 0, whatever the chains did.     *)
(***************************************************************************)
C6_ExitSuccess ==
    (Finished /\ PriceStageOk) =>
        /\ exit_code = <<0>>
        /\ i = Len(ChainOrder) + 1
        /\ \A c \in Chains : Has(c, "log_confirmed", TRUE) \/ Has(c, "log_error", TRUE)

C6_Witness ==
    /\ Finished
    /\ exit_code = <<0>>
    /\ \A c \in Chains : Failed(c) /\ Has(c, "log_error", TRUE)

(***************************************************************************)
(* C7: the steps of one chain's submission occur in the fixed order, each  *)
(* only after all the earlier ones succeeded; a failed step is followed by *)
(* nothing but the error line.  So the hash is logged after the broadcast  *)
(* and before the receipt wait, the confirmation only after a receipt, and *)
(* nothing follows a failed connectivity check.                            *)
(***************************************************************************)
C7_StepOrder ==
    \A c \in Chains :
        LET es == EventsOf(c)
        IN  \A k \in DOMAIN es :
                \/ /\ es[k].op = "log_error"
                   /\ k = Len(es)
                   /\ k > 1
                   /\ ~es[k - 1].ok
                \/ /\ k <= Len(StepOrder)
                   /\ es[k].op = StepOrder[k]
                   /\ \A j \in 1..(k - 1) : es[j].ok

C7_Witness ==
    \E c \in Chains :
        LET es == EventsOf(c)
        IN  /\ Len(es) = Len(StepOrder)
            /\ \A k \in DOMAIN es : es[k].op = StepOrder[k] /\ es[k].ok

(***************************************************************************)
(* C8: nothing is retried: the price API is queried at most once, each     *)
(* chain is entered at most once and exactly once in a run that got past   *)
(* the price stage, and at most one transaction is broadcast per chain.    *)
(***************************************************************************)
C8_NoRetry ==
    /\ Count("-", "GET") <= 1
    /\ Count("-", "usd_to_wei") <= 1
    /\ \A c \in Chains :
         /\ Count(c, "is_connected") <= 1
         /\ Count(c, "send_raw_transaction") <= 1
         /\ Count(c, "log_error") <= 1
         /\ (Finished /\ PriceStageOk) => Count(c, "is_connected") = 1

C8_Witness ==
    /\ Finished
    /\ Has("base", "wait_for_transaction_receipt", FALSE)
    /\ Has("celo", "send_raw_transaction", FALSE)

(***************************************************************************)
(* C9: every transaction built calls editFees with joinFee 0 and with      *)
(* savingFee the one fee computed by line 82, which is still the value of  *)
(* saving_fee_wei; its nonce, chain id and gas price are the values the    *)
(* same chain answered in the same iteration, its gas limit is 200000, and *)
(* it is that transaction which is signed and broadcast.                   *)
(***************************************************************************)
C9_TxnFields ==
    /\ PriceStageOk => saving_fee_wei = ValOf("-", "usd_to_wei").return[1]
    /\ Has("-", "log_summary", TRUE) =>
          ValOf("-", "log_summary") = [price |-> eth_price, fee |-> saving_fee_wei]
    /\ \A k \in DOMAIN trace :
         LET e == trace[k]
             txn == e.val[1]
         IN  /\ (e.op = "build_transaction" /\ e.ok) =>
                   /\ txn.data = [fn |-> "editFees", joinFee |-> PyInt(0),
                                    savingFee |-> ValOf("-", "usd_to_wei").return[1]]
                   /\ txn.to = CONTRACTS(e.chain).address
                   /\ txn.gas = 200000
                   /\ txn.nonce = ValOf(e.chain, "get_transaction_count")
                   /\ txn.chainId = ValOf(e.chain, "chain_id")
                   /\ txn.gasPrice = ValOf(e.chain, "gas_price")
             /\ (e.op = "send_raw_transaction" /\ e.ok) =>
                   txn.rawTransaction = ValOf(e.chain, "build_transaction")

C9_Witness ==
    /\ Has("base", "send_raw_transaction", TRUE)
    /\ Has("celo", "send_raw_transaction", TRUE)
    /\ ValOf("base", "build_transaction").nonce # ValOf("celo", "build_transaction").nonce
    /\ ValOf("base", "build_transaction").data = ValOf("celo", "build_transaction").data

\* chains are handled one after the other in configuration order, and a
\* chain's events end with its confirmation line or its error line before
\* the next chain's first event
Sequential ==
    /\ \A k \in 1..(Len(trace) - 1) :
         /\ Position(trace[k].chain) <= Position(trace[k + 1].chain)
         /\ (trace[k].chain # "-" /\ trace[k + 1].chain # trace[k].chain) =>
               trace[k].op \in {"log_confirmed", "log_error"}
    /\ Finished =>
         \/ exit_code = <<1>> /\ NoChainEvent
         \/ /\ exit_code = <<0>>
            /\ i = Len(ChainOrder) + 1
            /\ trace[Len(trace)].op \in {"log_confirmed", "log_error"}

(***************************************************************************)
(* C10: the run is sequential (Sequential above) and, every external call  *)
(* returning or raising, it eventually ends, aborted at the price stage or *)
(* with the loop finished.                                                 *)
(***************************************************************************)
C10_SequentialTerminates == []Sequential /\ <>Finished

C10_Witness ==
    /\ Finished
    /\ exit_code = <<0>>
    /\ \A c \in Chains : Has(c, "log_confirmed", TRUE)
====
